---------------------------- MODULE Spec2Model ----------------------------
(***************************************************************************)
(* A model of the two leaf units of the repository:                        *)
(*                                                                         *)
(*   project/users/tasks.py      the Celery task  divide(x, y)             *)
(*   tests/users/test_views.py   the smoke test   test_pytest_setup        *)
(*                                                                         *)
(* The task is run by worker threads; each statement of its body is one    *)
(* step of the worker that executes it.  The test is one sequential        *)
(* process; each statement of its body is one step.                        *)
(***************************************************************************)
EXTENDS Integers, Sequences, FiniteSets, TLC

(***************************************************************************)
(* Bounds of the model.                                                    *)
(***************************************************************************)
\* Dividends are 5 * k for k in -MaxK .. MaxK (so that 5 and 10 occur).
MaxK == 2
\* Divisors are -MaxY .. MaxY.
MaxY == 2
\* The last value of the identifier sequence of the users table is at most
\* MaxSeq when the test starts.
MaxSeq == 9

(***************************************************************************)
(* Program constants.                                                      *)
(***************************************************************************)
\* time.sleep(5)
DELAY == 5

VARIABLES
    \* ---- divide, per worker ----
    pc,        \* position of the worker in divide: idle, print, sleep,
               \* sleeping, divide, done
    x,         \* first argument of the invocation the worker runs
    y,         \* second argument
    stdout,    \* number of 'shared task' lines the invocation has printed
    sleeps,    \* number of time.sleep calls the invocation has made
    slept,     \* time units the invocation has spent inside time.sleep
    divs,      \* number of times the invocation has evaluated x / y
    outcome,   \* what the invocation produced: nothing yet, a return value
               \* or a raised exception
    \* ---- test_pytest_setup ----
    tpc,       \* position of the test
    app,       \* the application under test (its route table)
    response,  \* the response of client.get
    user,      \* the User object of the test
    session,   \* db_session: held by the fixture, its transaction, its
               \* pending objects
    db,        \* the users table: the last value of its identifier
               \* sequence and the identifiers of the rows the test inserted
    failedAt   \* source line of the statement that raised, 0 if none

taskVars == <<pc, x, y, stdout, sleeps, slept, divs, outcome>>
testVars == <<tpc, app, response, user, session, db, failedAt>>
vars == <<pc, x, y, stdout, sleeps, slept, divs, outcome,
          tpc, app, response, user, session, db, failedAt>>

(***************************************************************************)
(*                          project/users/tasks.py                         *)
(***************************************************************************)
\* The worker threads of the task queue that run divide side by side.
Workers == {"w1", "w2"}
Dividends == {5 * k : k \in -MaxK .. MaxK}
Divisors == -MaxY .. MaxY

Abs(n) == IF n < 0 THEN -n ELSE n

RECURSIVE GCD(_, _)
GCD(a, b) == IF b = 0 THEN a ELSE GCD(b, a % b)

NoOutcome == [kind |-> "none", num |-> 0, den |-> 1, err |-> ""]

\* mutant of TrueDiv: floor division (x // y) in place of true division
FloorDiv(a, b) ==
    [kind |-> "return", num |-> a \div b, den |-> 1, err |-> ""]

\* Python's true division of two integers, b # 0.  The float result is
\* represented by the exact quotient as a fraction in lowest terms with a
\* positive denominator (5.0 is 5/1, 2.5 is 5/2); float rounding is not
\* modelled.
TrueDiv(a, b) ==
    LET g == GCD(Abs(a), Abs(b))
        s == IF b < 0 THEN -1 ELSE 1
    IN  [kind |-> "return", num |-> (s * a) \div g,
         den |-> (s * b) \div g, err |-> ""]

\* mutant of Eval: a zero divisor is caught and 0 is returned
EvalGuarded(a, b) ==
    IF b = 0
    THEN [kind |-> "return", num |-> 0, den |-> 1, err |-> ""]
    ELSE TrueDiv(a, b)

\* The evaluation of  x / y : ZeroDivisionError for a zero divisor, the
\* quotient otherwise.
Eval(a, b) ==
    IF b = 0
    THEN [kind |-> "raise", num |-> 0, den |-> 1, err |-> "ZeroDivisionError"]
    ELSE TrueDiv(a, b)

\* mutant of Invoke: the divisor is validated up front, so that a zero
\* divisor fails before the diagnostic and the delay
InvokeChecked(w) ==
    /\ pc[w] = "idle"
    /\ \E a \in Dividends, b \in Divisors :
          /\ x' = [x EXCEPT ![w] = a]
          /\ y' = [y EXCEPT ![w] = b]
          /\ IF b = 0
             THEN /\ pc' = [pc EXCEPT ![w] = "done"]
                  /\ outcome' = [outcome EXCEPT ![w] = Eval(a, b)]
             ELSE /\ pc' = [pc EXCEPT ![w] = "print"]
                  /\ outcome' = [outcome EXCEPT ![w] = NoOutcome]
    /\ stdout' = [stdout EXCEPT ![w] = 0]
    /\ sleeps' = [sleeps EXCEPT ![w] = 0]
    /\ slept' = [slept EXCEPT ![w] = 0]
    /\ divs' = [divs EXCEPT ![w] = 0]
    /\ UNCHANGED testVars

\* The task queue calls divide(a, b) on an idle worker.
Invoke(w) ==
    /\ pc[w] = "idle"
    /\ \E a \in Dividends, b \in Divisors :
          /\ x' = [x EXCEPT ![w] = a]
          /\ y' = [y EXCEPT ![w] = b]
    /\ pc' = [pc EXCEPT ![w] = "print"]
    /\ stdout' = [stdout EXCEPT ![w] = 0]
    /\ sleeps' = [sleeps EXCEPT ![w] = 0]
    /\ slept' = [slept EXCEPT ![w] = 0]
    /\ divs' = [divs EXCEPT ![w] = 0]
    /\ outcome' = [outcome EXCEPT ![w] = NoOutcome]
    /\ UNCHANGED testVars

\* mutant of PrintStep: the diagnostic is left out
PrintSkipped(w) ==
    /\ pc[w] = "print"
    /\ pc' = [pc EXCEPT ![w] = "sleep"]
    /\ UNCHANGED <<x, y, stdout, sleeps, slept, divs, outcome>>
    /\ UNCHANGED testVars

\* print('shared task')
PrintStep(w) ==
    /\ pc[w] = "print"
    /\ stdout' = [stdout EXCEPT ![w] = @ + 1]
    /\ pc' = [pc EXCEPT ![w] = "sleep"]
    /\ UNCHANGED <<x, y, sleeps, slept, divs, outcome>>
    /\ UNCHANGED testVars

\* time.sleep(5) is called: the worker thread blocks.
SleepStep(w) ==
    /\ pc[w] = "sleep"
    /\ sleeps' = [sleeps EXCEPT ![w] = @ + 1]
    /\ pc' = [pc EXCEPT ![w] = "sleeping"]
    /\ UNCHANGED <<x, y, stdout, slept, divs, outcome>>
    /\ UNCHANGED testVars

\* One time unit passes for every worker that is inside time.sleep.
Tick ==
    /\ \E w \in Workers : pc[w] = "sleeping" /\ slept[w] < DELAY
    /\ slept' = [w \in Workers |->
                    IF pc[w] = "sleeping" /\ slept[w] < DELAY
                    THEN slept[w] + 1 ELSE slept[w]]
    /\ UNCHANGED <<pc, x, y, stdout, sleeps, divs, outcome>>
    /\ UNCHANGED testVars

\* mutant of Wake: the sleep can be interrupted before its time is up
WakeEarly(w) ==
    /\ pc[w] = "sleeping"
    /\ pc' = [pc EXCEPT ![w] = "divide"]
    /\ UNCHANGED <<x, y, stdout, sleeps, slept, divs, outcome>>
    /\ UNCHANGED testVars

\* time.sleep(5) returns, once the 5 time units have passed.
Wake(w) ==
    /\ pc[w] = "sleeping"
    /\ slept[w] >= DELAY
    /\ pc' = [pc EXCEPT ![w] = "divide"]
    /\ UNCHANGED <<x, y, stdout, sleeps, slept, divs, outcome>>
    /\ UNCHANGED testVars

\* mutant of DivideStep: a failed division is retried after a new delay
DivideRetry(w) ==
    /\ pc[w] = "divide"
    /\ divs' = [divs EXCEPT ![w] = @ + 1]
    /\ IF Eval(x[w], y[w]).kind = "raise" /\ divs[w] = 0
       THEN /\ pc' = [pc EXCEPT ![w] = "sleep"]
            /\ slept' = [slept EXCEPT ![w] = 0]
            /\ UNCHANGED outcome
       ELSE /\ pc' = [pc EXCEPT ![w] = "done"]
            /\ outcome' = [outcome EXCEPT ![w] = Eval(x[w], y[w])]
            /\ UNCHANGED slept
    /\ UNCHANGED <<x, y, stdout, sleeps>>
    /\ UNCHANGED testVars

\* return x / y : the value is returned, or the exception of the division
\* leaves the function uncaught.
DivideStep(w) ==
    /\ pc[w] = "divide"
    /\ divs' = [divs EXCEPT ![w] = @ + 1]
    /\ outcome' = [outcome EXCEPT ![w] = Eval(x[w], y[w])]
    /\ pc' = [pc EXCEPT ![w] = "done"]
    /\ UNCHANGED <<x, y, stdout, sleeps, slept>>
    /\ UNCHANGED testVars

\* The task queue takes the outcome; the worker is idle again.
Release(w) ==
    /\ pc[w] = "done"
    /\ pc' = [pc EXCEPT ![w] = "idle"]
    /\ x' = [x EXCEPT ![w] = 0]
    /\ y' = [y EXCEPT ![w] = 0]
    /\ stdout' = [stdout EXCEPT ![w] = 0]
    /\ sleeps' = [sleeps EXCEPT ![w] = 0]
    /\ slept' = [slept EXCEPT ![w] = 0]
    /\ divs' = [divs EXCEPT ![w] = 0]
    /\ outcome' = [outcome EXCEPT ![w] = NoOutcome]
    /\ UNCHANGED testVars

InitTask ==
    /\ pc = [w \in Workers |-> "idle"]
    /\ x = [w \in Workers |-> 0]
    /\ y = [w \in Workers |-> 0]
    /\ stdout = [w \in Workers |-> 0]
    /\ sleeps = [w \in Workers |-> 0]
    /\ slept = [w \in Workers |-> 0]
    /\ divs = [w \in Workers |-> 0]
    /\ outcome = [w \in Workers |-> NoOutcome]

NextTask ==
    \/ \E w \in Workers : Invoke(w)
    \/ \E w \in Workers : PrintStep(w)
    \/ \E w \in Workers : SleepStep(w)
    \/ Tick
    \/ \E w \in Workers : Wake(w)
    \/ \E w \in Workers : DivideStep(w)
    \/ \E w \in Workers : Release(w)

(***************************************************************************)
(*                       tests/users/test_views.py                         *)
(***************************************************************************)
NoId == <<>>
NoUser == [made |-> FALSE, username |-> "", email |-> "", id |-> NoId]
NoResponse == [made |-> FALSE, status |-> 0]

\* The application as section 6 of the specification describes it: the users
\* router holds a route named "form_example_get" that answers GET with 200.
SpecifiedApp ==
    {[name |-> "form_example_get", path |-> "/users/form/",
      method |-> "GET", status |-> 200]}

\* Applications the test may be run against: the route of that name may
\* serve another method and may answer with another status.
AnyApps ==
    {{[name |-> "form_example_get", path |-> "/users/form/",
       method |-> m, status |-> s]} :
        m \in {"GET", "POST"}, s \in {200, 404, 500}}

\* users_router.url_path_for(name): the paths of the routes of that name
\* (none: NoMatchFound is raised).
UrlPathFor(a, name) == {r.path : r \in {q \in a : q.name = name}}

\* client.get(path): the status of the response.
ClientRequest(a, method, path) ==
    IF \E r \in a : r.path = path /\ r.method = method
    THEN (CHOOSE r \in a : r.path = path /\ r.method = method).status
    ELSE IF \E r \in a : r.path = path THEN 405 ELSE 404

\* mutant of RouteName: the name of the route is misspelt
RouteNameMisspelt == "form_example"

RouteName == "form_example_get"

\* The identifier the persistence layer gives to the next inserted row.
NextId(d) == d.seq + 1

\* The truth value Python's assert gives to user.id.
Truthy(id) == id # NoId /\ id[1] # 0

\* The fixtures client and db_session are set up: the session is acquired.
FixtureSetup ==
    /\ tpc = "setup"
    /\ session' = [session EXCEPT !.held = TRUE]
    /\ tpc' = "get"
    /\ UNCHANGED <<app, response, user, db, failedAt>>
    /\ UNCHANGED taskVars

\* response = client.get(users_router.url_path_for("form_example_get"))
ClientGet ==
    /\ tpc = "get"
    /\ IF UrlPathFor(app, RouteName) = {}
       THEN /\ tpc' = "failed"
            /\ failedAt' = 7
            /\ UNCHANGED response
       ELSE /\ \E p \in UrlPathFor(app, RouteName) :
                  response' = [made |-> TRUE,
                               status |-> ClientRequest(app, "GET", p)]
            /\ tpc' = "assert_status"
            /\ UNCHANGED failedAt
    /\ UNCHANGED <<app, user, session, db>>
    /\ UNCHANGED taskVars

\* mutant of AssertStatus: the status is checked without ending the test
AssertStatusSoft ==
    /\ tpc = "assert_status"
    /\ tpc' = "construct"
    /\ failedAt' = IF response.status = 200 THEN failedAt ELSE 8
    /\ UNCHANGED <<app, response, user, session, db>>
    /\ UNCHANGED taskVars

\* assert response.status_code == 200
AssertStatus ==
    /\ tpc = "assert_status"
    /\ IF response.status = 200
       THEN tpc' = "construct" /\ UNCHANGED failedAt
       ELSE tpc' = "failed" /\ failedAt' = 8
    /\ UNCHANGED <<app, response, user, session, db>>
    /\ UNCHANGED taskVars

\* user = User(username="test", email="test@example.com")
ConstructUser ==
    /\ tpc = "construct"
    /\ user' = [made |-> TRUE, username |-> "test",
                email |-> "test@example.com", id |-> NoId]
    /\ tpc' = "begin"
    /\ UNCHANGED <<app, response, session, db, failedAt>>
    /\ UNCHANGED taskVars

\* with db_session.begin():  -- the transaction is begun
Begin ==
    /\ tpc = "begin"
    /\ session' = [session EXCEPT !.txn = "active"]
    /\ tpc' = "add"
    /\ UNCHANGED <<app, response, user, db, failedAt>>
    /\ UNCHANGED taskVars

\* mutant of AddOk: the user is not added to the session
AddForgotten ==
    /\ tpc = "add"
    /\ tpc' = "exit"
    /\ UNCHANGED <<app, response, user, session, db, failedAt>>
    /\ UNCHANGED taskVars

\* db_session.add(user)
AddOk ==
    /\ tpc = "add"
    /\ session' = [session EXCEPT !.pending = TRUE]
    /\ tpc' = "exit"
    /\ UNCHANGED <<app, response, user, db, failedAt>>
    /\ UNCHANGED taskVars

\* mutant of AddFails: the transaction is begun without the with statement,
\* so that an exception of add leaves it open
AddFailsNoRelease ==
    /\ tpc = "add"
    /\ tpc' = "failed"
    /\ failedAt' = 13
    /\ UNCHANGED <<app, response, user, session, db>>
    /\ UNCHANGED taskVars

\* db_session.add(user) raises: the with block is left by the exception and
\* the transaction is rolled back.
AddFails ==
    /\ tpc = "add"
    /\ session' = [session EXCEPT !.txn = "none", !.pending = FALSE]
    /\ tpc' = "failed"
    /\ failedAt' = 13
    /\ UNCHANGED <<app, response, user, db>>
    /\ UNCHANGED taskVars

\* The with block ends normally: the pending user is inserted, which gives
\* it its identifier, and the transaction commits.
CommitOk ==
    /\ tpc = "exit"
    /\ IF session.pending
       THEN /\ user' = [user EXCEPT !.id = <<NextId(db)>>]
            /\ db' = [seq |-> NextId(db),
                      rows |-> db.rows \cup {NextId(db)}]
       ELSE UNCHANGED <<user, db>>
    /\ session' = [session EXCEPT !.txn = "none", !.pending = FALSE]
    /\ tpc' = "assert_id"
    /\ UNCHANGED <<app, response, failedAt>>
    /\ UNCHANGED taskVars

\* The with block ends normally but the insert or the commit raises: the
\* transaction is rolled back and the exception leaves the test.
CommitFails ==
    /\ tpc = "exit"
    /\ session' = [session EXCEPT !.txn = "none", !.pending = FALSE]
    /\ tpc' = "failed"
    /\ failedAt' = 12
    /\ UNCHANGED <<app, response, user, db>>
    /\ UNCHANGED taskVars

\* assert user.id
AssertId ==
    /\ tpc = "assert_id"
    /\ IF Truthy(user.id)
       THEN tpc' = "passed" /\ UNCHANGED failedAt
       ELSE tpc' = "failed" /\ failedAt' = 14
    /\ UNCHANGED <<app, response, user, session, db>>
    /\ UNCHANGED taskVars

\* The fixtures are torn down after the test, passed or failed: the session
\* is released.
FixtureTeardown ==
    /\ tpc \in {"passed", "failed"}
    /\ session' = [held |-> FALSE, txn |-> "none", pending |-> FALSE]
    /\ tpc' = "finished"
    /\ UNCHANGED <<app, response, user, db, failedAt>>
    /\ UNCHANGED taskVars

\* The test process before its first step, against application a and a
\* users table whose identifier sequence stands at s.
TestStart(a, s) ==
    /\ tpc = "setup"
    /\ app = a
    /\ response = NoResponse
    /\ user = NoUser
    /\ session = [held |-> FALSE, txn |-> "none", pending |-> FALSE]
    /\ db = [seq |-> s, rows |-> {}]
    /\ failedAt = 0

NextTest ==
    \/ FixtureSetup
    \/ ClientGet
    \/ AssertStatus
    \/ ConstructUser
    \/ Begin
    \/ AddOk
    \/ AddFails
    \/ CommitOk
    \/ CommitFails
    \/ AssertId
    \/ FixtureTeardown

(***************************************************************************)
(*                             Specifications                              *)
(***************************************************************************)
\* The workers of the task queue running divide.
Init == InitTask /\ TestStart(SpecifiedApp, 0)
Next == NextTask
Spec == Init /\ [][Next]_vars

\* The test against the application and the persistence layer as specified.
InitTest == InitTask /\ \E s \in 0 .. MaxSeq : TestStart(SpecifiedApp, s)
SpecTest == InitTest /\ [][NextTest]_vars

\* The test against any application, and against a users table whose
\* sequence may start at 0 (it stands at -1 and hands out 0 first).
InitTestEnv ==
    InitTask /\ \E a \in AnyApps, s \in -1 .. MaxSeq : TestStart(a, s)
SpecTestEnv == InitTestEnv /\ [][NextTest]_vars

(***************************************************************************)
(*                     Properties of the divide task                       *)
(***************************************************************************)
\* The invocation on worker w has left time.sleep after the full delay.
DelayElapsed(w) == sleeps[w] = 1 /\ slept[w] = DELAY

\* The outcome of worker w is the quotient of its own arguments, as an
\* irreducible fraction with a positive denominator.
IsQuotient(w) ==
    /\ outcome[w].kind = "return"
    /\ outcome[w].den > 0
    /\ outcome[w].num * y[w] = outcome[w].den * x[w]
    /\ GCD(Abs(outcome[w].num), outcome[w].den) = 1

\* C1: every invocation divide(x, y) with a non-zero y that has ended has
\* ended by returning, and the value returned is the quotient x / y.
C1_ReturnsQuotient ==
    \A w \in Workers :
        (pc[w] = "done" /\ y[w] # 0) => IsQuotient(w)

\* C1 witness: divide(10, 2) has returned 5.
C1_Witness ==
    \E w \in Workers :
        /\ pc[w] = "done" /\ x[w] = 10 /\ y[w] = 2
        /\ outcome[w] = [kind |-> "return", num |-> 5, den |-> 1, err |-> ""]

\* C2: an invocation divide(x, 0) never holds a return value, and when it
\* has ended it has ended with a division-by-zero error.
C2_ZeroDivisorFails ==
    \A w \in Workers :
        (pc[w] # "idle" /\ y[w] = 0) =>
            /\ outcome[w].kind # "return"
            /\ pc[w] = "done" =>
                  /\ outcome[w].kind = "raise"
                  /\ outcome[w].err = "ZeroDivisionError"

\* C2 witness: divide(-10, 0) has ended with ZeroDivisionError.
C2_Witness ==
    \E w \in Workers :
        /\ pc[w] = "done" /\ x[w] = -10 /\ y[w] = 0
        /\ outcome[w].kind = "raise"
        /\ outcome[w].err = "ZeroDivisionError"

\* C3: within an invocation the diagnostic comes first, then the whole
\* delay, then the division: the sleep is entered only after the one
\* diagnostic line, time passes in the sleep only after it was entered, and
\* the division is evaluated and an outcome exists only after the diagnostic
\* and the full delay.
C3_PrintSleepDivide ==
    \A w \in Workers :
        /\ (sleeps[w] > 0 \/ pc[w] = "sleep") => stdout[w] = 1
        /\ slept[w] > 0 => sleeps[w] = 1
        /\ (pc[w] = "divide" \/ divs[w] > 0 \/ outcome[w].kind # "none") =>
              stdout[w] = 1 /\ DelayElapsed(w)
        /\ outcome[w].kind # "none" => divs[w] = 1

\* C3 witness: an invocation has returned after the diagnostic and the
\* full delay.
C3_Witness ==
    \E w \in Workers :
        /\ outcome[w].kind = "return"
        /\ stdout[w] = 1 /\ DelayElapsed(w) /\ divs[w] = 1

\* C4 as stated: divide(x, 0) raises immediately (no time passes between
\* the call and the raise) and the delay has elapsed before the raise.
C4_RaisesImmediately ==
    \A w \in Workers :
        (y[w] = 0 /\ outcome[w].kind = "raise") =>
            slept[w] = 0 /\ DelayElapsed(w)

\* C4 as amended: divide(x, 0) raises only after the full delay: the zero
\* divisor is not detected up front (no outcome while the invocation prints
\* and sleeps), and when the error is raised the delay has elapsed.
C4_RaisesAfterDelay ==
    \A w \in Workers :
        (pc[w] # "idle" /\ y[w] = 0) =>
            /\ pc[w] \in {"print", "sleep", "sleeping", "divide"} =>
                  outcome[w].kind = "none"
            /\ outcome[w].kind = "raise" => DelayElapsed(w)

\* C4 witness: divide(5, 0) has raised, 5 time units after its sleep began.
C4_Witness ==
    \E w \in Workers :
        /\ x[w] = 5 /\ y[w] = 0
        /\ outcome[w].kind = "raise"
        /\ slept[w] = DELAY

\* C9: within one invocation the diagnostic, the delay and the division
\* happen at most once; once the division was evaluated the invocation is
\* over, and a failed division is its outcome: no retry, no second delay,
\* no substitute value.
C9_NoLocalRecovery ==
    \A w \in Workers :
        /\ stdout[w] <= 1 /\ sleeps[w] <= 1 /\ divs[w] <= 1
        /\ divs[w] = 1 => pc[w] = "done"
        /\ (divs[w] = 1 /\ y[w] = 0) =>
              outcome[w] = [kind |-> "raise", num |-> 0, den |-> 1,
                            err |-> "ZeroDivisionError"]

\* C9 witness: divide(10, 0) has failed after one diagnostic, one delay and
\* one division.
C9_Witness ==
    \E w \in Workers :
        /\ x[w] = 10 /\ y[w] = 0 /\ pc[w] = "done"
        /\ outcome[w].kind = "raise"
        /\ stdout[w] = 1 /\ sleeps[w] = 1 /\ divs[w] = 1

\* A step leaves the invocation of worker w as it is.
SameInvocation(w) ==
    /\ x'[w] = x[w] /\ y'[w] = y[w]
    /\ stdout'[w] = stdout[w] /\ sleeps'[w] = sleeps[w]

\* A step leaves worker w wholly untouched, but for the time it has slept.
Untouched(w) ==
    /\ SameInvocation(w)
    /\ pc'[w] = pc[w] /\ divs'[w] = divs[w] /\ outcome'[w] = outcome[w]

\* C10: from the start of the delay to the outcome the worker runs nothing
\* but its invocation: while it sleeps it stays in the sleep, with the same
\* invocation and no outcome, until the full delay has passed, and then only
\* evaluates the division; a step of one worker leaves every other worker
\* untouched; and every outcome is the one its own x and y determine.
C10_WorkerBlocked ==
    /\ [][\A w \in Workers :
            /\ pc[w] = "sleeping" =>
                  /\ pc'[w] \in {"sleeping", "divide"}
                  /\ pc'[w] = "divide" => slept[w] = DELAY
                  /\ slept'[w] >= slept[w]
                  /\ SameInvocation(w)
                  /\ divs'[w] = 0 /\ outcome'[w] = NoOutcome
            /\ pc[w] = "divide" =>
                  /\ pc'[w] \in {"divide", "done"}
                  /\ SameInvocation(w) /\ slept'[w] = slept[w]
            /\ pc'[w] # pc[w] =>
                  \A v \in Workers \ {w} : Untouched(v)]_vars
    /\ [](\A w \in Workers :
            pc[w] = "done" =>
                IF y[w] = 0 THEN outcome[w].kind = "raise"
                ELSE IsQuotient(w))

\* C10 witness: one worker is in the middle of its delay while the other
\* one, running another invocation, has produced its own quotient.
C10_Witness ==
    \E w, v \in Workers :
        /\ w # v
        /\ pc[w] = "sleeping" /\ slept[w] = 2 /\ x[w] = 5 /\ y[w] = 0
        /\ pc[v] = "done" /\ x[v] = -5 /\ y[v] = 2
        /\ outcome[v] = [kind |-> "return", num |-> -5, den |-> 2, err |-> ""]

(***************************************************************************)
(*                      Properties of the smoke test                       *)
(***************************************************************************)
\* The with block was left normally: its transaction has committed.
Committed ==
    \/ tpc \in {"assert_id", "passed"}
    \/ tpc \in {"failed", "finished"} /\ failedAt = 14
    \/ tpc = "finished" /\ failedAt = 0

\* The outcome of the check of lines 7-8.
EndpointCheck ==
    IF failedAt \in {7, 8} THEN "fail"
    ELSE IF tpc \in {"setup", "get", "assert_status"} THEN "notrun"
    ELSE "pass"

\* The outcome of the check of lines 11-14.
PersistenceCheck ==
    IF failedAt \in {12, 13, 14} THEN "fail"
    ELSE IF tpc = "passed" \/ (tpc = "finished" /\ failedAt = 0) THEN "pass"
    ELSE IF user.made THEN "running"
    ELSE "notrun"

C7_GetReturns200 ==
    /\ tpc \notin {"setup", "get"} =>
          response.made /\ response.status = 200
    /\ failedAt \notin {7, 8}

\* C7 witness: the test is past the assertion on the status, which is 200.
C7_Witness ==
    /\ tpc = "construct"
    /\ response = [made |-> TRUE, status |-> 200]

\* C8 as stated: when the test has ended both checks were executed and
\* have an outcome, whatever the outcome of the other one.
C8_BothChecksRun ==
    tpc = "finished" =>
        /\ EndpointCheck \in {"pass", "fail"}
        /\ PersistenceCheck \in {"pass", "fail"}

\* C8 as amended: the two checks run in sequence.  The persistence check is
\* executed only when the endpoint check has passed: a failed endpoint
\* check ends the test before the User is constructed.  The outcome of the
\* endpoint check, once determined, is not altered by the persistence
\* check.
C8_ChecksInSequence ==
    /\ [](/\ PersistenceCheck # "notrun" => EndpointCheck = "pass"
          /\ EndpointCheck = "fail" =>
                PersistenceCheck = "notrun" /\ ~user.made)
    /\ [][EndpointCheck # "notrun" => EndpointCheck' = EndpointCheck]_vars

\* C8 witness: the test has ended on the failed status assertion and the
\* persistence check was never executed.
C8_Witness ==
    /\ tpc = "finished" /\ failedAt = 8
    /\ ~user.made /\ db.rows = {}

=============================================================================
